---- MODULE Spec2Model ----
(***************************************************************************)
(* A model of weather.py: the two weather tools (by IP, by location), the  *)
(* date extractor, the weather client with its TTL caches, the response    *)
(* formatter and the Streamlit session's chat log.                         *)
(*                                                                         *)
(* Python values are modelled as follows.  A str is a TLA+ string.  A      *)
(* value that may be None is a tagged record: None, Str(s), a datetime     *)
(* [k |-> "datetime", day, sec] (proleptic Gregorian ordinal and second of *)
(* the day; microseconds are not modelled), a weather dict                 *)
(* [k |-> "weather", ...] or an error dict [k |-> "error", error].  A call *)
(* that lets an exception escape yields [k |-> "raise", exc].              *)
(***************************************************************************)
EXTENDS Integers, Sequences, FiniteSets, TLC

VARIABLES
    now,            \* the wall clock, seconds since the epoch (UTC)
    nreq,           \* requests handled so far (bounds the exploration)
    chat_history,   \* st.session_state.chat_history
    loc_cache,      \* st.cache_data store of get_location_by_ip
    weather_cache,  \* st.cache_data store of get_weather
    pending,        \* the user text of the script run in progress, or None
    req,            \* trace of the last step of the script run
    probe           \* a function applied to drawn inputs (SpecFn)

vars == <<now, nreq, chat_history, loc_cache, weather_cache, pending, req, probe>>
session == <<now, nreq, chat_history, loc_cache, weather_cache, pending, req>>

None == [k |-> "None"]
Str(s) == [k |-> "str", s |-> s]
Raise(e) == [k |-> "raise", exc |-> e]
Return(v) == [k |-> "return", v |-> v]

(***************************************************************************)
(* Characters and strings                                                  *)
(***************************************************************************)
DigitChars == {"0", "1", "2", "3", "4", "5", "6", "7", "8", "9"}

LowerChars == {"a", "b", "c", "d", "e", "f", "g", "h", "i", "j", "k", "l", "m",
               "n", "o", "p", "q", "r", "s", "t", "u", "v", "w", "x", "y", "z"}

UpperChars == {"A", "B", "C", "D", "E", "F", "G", "H", "I", "J", "K", "L", "M",
               "N", "O", "P", "Q", "R", "S", "T", "U", "V", "W", "X", "Y", "Z"}

Char(s, i) == SubSeq(s, i, i)

\* \d of the pattern (ASCII texts)
IsDigit(c) == c \in DigitChars

\* \w of the pattern, which decides where \b holds
IsWordChar(c) == c \in DigitChars \cup LowerChars \cup UpperChars \cup {"_"}

DigitVal(c) == CHOOSE d \in 0..9 : Char("0123456789", d + 1) = c

\* int() of a string of digits
RECURSIVE ParseInt(_)
ParseInt(s) ==
    IF Len(s) = 0 THEN 0
    ELSE 10 * ParseInt(SubSeq(s, 1, Len(s) - 1)) + DigitVal(Char(s, Len(s)))

UpperString == "ABCDEFGHIJKLMNOPQRSTUVWXYZ"
LowerString == "abcdefghijklmnopqrstuvwxyz"

LowerChar(c) ==
    IF c \in UpperChars
    THEN Char(LowerString, CHOOSE i \in 1..26 : Char(UpperString, i) = c)
    ELSE c

\* str.lower()
RECURSIVE Lower(_)
Lower(s) == IF Len(s) = 0 THEN "" ELSE LowerChar(Char(s, 1)) \o Lower(SubSeq(s, 2, Len(s)))

\* sub in s: a scan over the start positions
RECURSIVE FindFrom(_, _, _)
FindFrom(sub, s, i) ==
    IF i + Len(sub) - 1 > Len(s) THEN FALSE
    ELSE IF SubSeq(s, i, i + Len(sub) - 1) = sub THEN TRUE
    ELSE FindFrom(sub, s, i + 1)

Contains(sub, s) == FindFrom(sub, s, 1)

(***************************************************************************)
(* Calendar arithmetic of datetime                                         *)
(***************************************************************************)
SecPerDay == 86400
EpochOrdinal == 719163       \* date(1970, 1, 1).toordinal()

IsLeap(y) == (y % 4 = 0 /\ y % 100 # 0) \/ y % 400 = 0

DaysInMonth(y, m) ==
    IF m = 2 THEN (IF IsLeap(y) THEN 29 ELSE 28)
    ELSE IF m \in {4, 6, 9, 11} THEN 30 ELSE 31

DaysBeforeYear(y) ==
    (y - 1) * 365 + ((y - 1) \div 4) - ((y - 1) \div 100) + ((y - 1) \div 400)

RECURSIVE DaysBeforeMonth(_, _)
DaysBeforeMonth(y, m) ==
    IF m = 1 THEN 0 ELSE DaysBeforeMonth(y, m - 1) + DaysInMonth(y, m - 1)

ToOrdinal(y, m, d) == DaysBeforeYear(y) + DaysBeforeMonth(y, m) + d

DateTime(day, sec) == [k |-> "datetime", day |-> day, sec |-> sec]

\* datetime.utcfromtimestamp(t)
utcfromtimestamp(t) == DateTime(EpochOrdinal + (t \div SecPerDay), t % SecPerDay)

\* a > b on datetimes
DateTimeGT(a, b) == a.day > b.day \/ (a.day = b.day /\ a.sec > b.sec)

YearOf(n) ==
    CHOOSE y \in (n \div 366)..((n \div 365) + 1) :
        DaysBeforeYear(y) < n /\ n <= DaysBeforeYear(y + 1)

MonthOf(n) ==
    LET y == YearOf(n)
        r == n - DaysBeforeYear(y)
    IN CHOOSE m \in 1..12 :
        DaysBeforeMonth(y, m) < r /\ r <= DaysBeforeMonth(y, m) + DaysInMonth(y, m)

DayOf(n) == n - DaysBeforeYear(YearOf(n)) - DaysBeforeMonth(YearOf(n), MonthOf(n))

RECURSIVE ZeroPad(_, _)
ZeroPad(s, w) == IF Len(s) >= w THEN s ELSE ZeroPad("0" \o s, w)

\* dt.strftime('%Y-%m-%d')
strftime_ymd(dt) ==
    ZeroPad(ToString(YearOf(dt.day)), 4) \o "-" \o ZeroPad(ToString(MonthOf(dt.day)), 2)
        \o "-" \o ZeroPad(ToString(DayOf(dt.day)), 2)

MonthNames == <<"January", "February", "March", "April", "May", "June", "July",
                "August", "September", "October", "November", "December">>

\* dt.strftime('%d %B')
strftime_dB(dt) == ZeroPad(ToString(DayOf(dt.day)), 2) \o " " \o MonthNames[MonthOf(dt.day)]

\* datetime.strptime(s, "%Y-%m-%d") for s of the shape dddd-dd-dd: the datetime at
\* midnight, or ValueError (month 00 or above 12, a day the month has not, year 0000)
strptime_ymd(s) ==
    LET y == ParseInt(SubSeq(s, 1, 4))
        m == ParseInt(SubSeq(s, 6, 7))
        d == ParseInt(SubSeq(s, 9, 10))
    IN IF y >= 1 /\ m \in 1..12 /\ d >= 1 /\ d <= DaysInMonth(y, m)
       THEN DateTime(ToOrdinal(y, m, d), 0)
       ELSE Raise("ValueError")

(***************************************************************************)
(* extract_date_from_query                                                 *)
(***************************************************************************)
\* \d{4}-\d{2}-\d{2} at position i
DateShapedAt(q, i) ==
    /\ i >= 1 /\ i + 9 <= Len(q)
    /\ \A j \in {0, 1, 2, 3, 5, 6, 8, 9} : IsDigit(Char(q, i + j))
    /\ Char(q, i + 4) = "-" /\ Char(q, i + 7) = "-"

\* \b before position i and after position i + 9, when both hold a digit
WordBoundedAt(q, i) ==
    /\ (i = 1 \/ ~IsWordChar(Char(q, i - 1)))
    /\ (i + 9 = Len(q) \/ ~IsWordChar(Char(q, i + 10)))

\* variant: the pattern without its two \b
PatternMatchesAt_unanchored(q, i) == DateShapedAt(q, i)

PatternMatchesAt(q, i) == DateShapedAt(q, i) /\ WordBoundedAt(q, i)

\* re.search(date_pattern, query): the start of the leftmost match, 0 for no match
RECURSIVE re_search(_, _)
re_search(q, i) ==
    IF i + 9 > Len(q) THEN 0
    ELSE IF PatternMatchesAt(q, i) THEN i
    ELSE re_search(q, i + 1)

extract_date_from_query(query) ==
    LET i == re_search(query, 1)
    IN IF i = 0 THEN None
       ELSE LET r == strptime_ymd(SubSeq(query, i, i + 9))
            IN IF r.k = "raise" THEN None ELSE r

(***************************************************************************)
(* get_location_by_ip                                                      *)
(*                                                                         *)
(* An HTTP call either raises (a network failure) or answers:              *)
(* [k |-> "resp", status, ...].  requests.get does not raise on a non-200  *)
(* status.                                                                 *)
(***************************************************************************)
HttpRaise == [k |-> "raise"]
EchoResp(status, text) == [k |-> "resp", status |-> status, text |-> text]
\* city is what data.get("city") yields: Str(name) or None (no such field)
GeoResp(status, city) == [k |-> "resp", status |-> status, city |-> city]

\* what a request log keeps of an answer: the failure, or the status
Answer(res) == IF res.k = "raise" THEN res ELSE [k |-> "resp", status |-> res.status]

IpifyCall(res) == [svc |-> "ipify", res |-> Answer(res)]
IpinfoCall(ip, res) == [svc |-> "ipinfo", ip |-> ip, res |-> Answer(res)]
WeatherCall(endpoint, q, res) ==
    [svc |-> "openweathermap", endpoint |-> endpoint, q |-> q, res |-> Answer(res)]

\* the requests the function sends, in order, each with its answer
location_calls(echo, geo) ==
    IF echo.k = "raise" THEN <<IpifyCall(echo)>>
    ELSE <<IpifyCall(echo), IpinfoCall(echo.text, geo)>>

\* the function body (a cache miss): the value returned
location_status_ok(response) == response.status = 200

\* variant: a failed IP lookup falls back to a default city
get_location_by_ip_fallback(echo, geo) ==
    IF echo.k = "raise" THEN Str("Dhaka")
    ELSE IF geo.k = "raise" THEN None
    ELSE IF location_status_ok(geo) THEN geo.city
    ELSE None

get_location_by_ip(echo, geo) ==
    IF echo.k = "raise" THEN None                        \* except Exception
    ELSE IF geo.k = "raise" THEN None                    \* except Exception
    ELSE IF location_status_ok(geo) THEN geo.city        \* data.get("city")
    ELSE None                                            \* falls off the end

(***************************************************************************)
(* get_weather                                                             *)
(***************************************************************************)
\* Truthiness of the date argument: a datetime is always true, None is false
Truthy(date) == date.k # "None"

\* variant: the current-conditions endpoint whatever the date
weather_endpoint_current(date) == "weather"

weather_endpoint(date) == IF date.k = "None" THEN "weather" ELSE "forecast"

WeatherResp(status, data) == [k |-> "resp", status |-> status, data |-> data]

\* variant: the icon is looked up under a key the slot has not, and comes out empty
WeatherDict_empty_icon(name, slot, date_str) ==
    [k |-> "weather",
     location |-> name,
     temperature |-> slot.temp,
     description |-> slot.description,
     icon |-> "",
     humidity |-> slot.humidity,
     pressure |-> slot.pressure,
     wind_speed |-> slot.wind_speed,
     date |-> date_str]

WeatherDict(name, slot, date_str) ==
    [k |-> "weather",
     location |-> name,
     temperature |-> slot.temp,
     description |-> slot.description,
     icon |-> slot.icon,
     humidity |-> slot.humidity,
     pressure |-> slot.pressure,
     wind_speed |-> slot.wind_speed,
     date |-> date_str]

ErrorDict(msg) == [k |-> "error", error |-> msg]

\* variant: the datetimes are compared, not their dates
slot_matches_datetime(forecast, date) == utcfromtimestamp(forecast.dt) = date

\* forecast_time.date() == date.date()
slot_matches(forecast, date) == utcfromtimestamp(forecast.dt).day = date.day

\* for forecast in data["list"]: ... return at the first match
RECURSIVE scan_forecast(_, _, _)
scan_forecast(data, i, date) ==
    IF i > Len(data.list) THEN ErrorDict("Weather data not available for this date.")
    ELSE IF slot_matches(data.list[i], date)
         THEN WeatherDict(data.city_name, data.list[i],
                          strftime_ymd(utcfromtimestamp(data.list[i].dt)))
         ELSE scan_forecast(data, i + 1, date)

\* the function body (a cache miss) on the answer `response` of the provider
get_weather(location, date, response) ==
    IF response.k = "raise" THEN Raise("ConnectionError")    \* requests.get, no try
    ELSE IF response.status = 200
         THEN IF Truthy(date)
              THEN scan_forecast(response.data, 1, date)
              ELSE WeatherDict(response.data.name, response.data,
                               strftime_ymd(utcfromtimestamp(response.data.dt)))
         ELSE ErrorDict("API error: " \o ToString(response.status))

(***************************************************************************)
(* format_weather_response                                                 *)
(* ASCII only: the degree sign, the typographic apostrophe and the dash of *)
(* the templates are written "deg", "'" and "-".                           *)
(***************************************************************************)
IntVal(n) == [k |-> "int", v |-> n]

weather_details(w) ==
    "Temperature: " \o ToString(w.temperature) \o "degC, "
    \o "Weather: " \o w.description \o ", "
    \o "Humidity: " \o ToString(w.humidity) \o "%, "
    \o "Pressure: " \o ToString(w.pressure) \o " hPa, "
    \o "Wind Speed: " \o ToString(w.wind_speed) \o " m/s"

haze_narrative(w) ==
    "The weather in " \o w.location \o " on " \o w.date \o " will be characterized by "
    \o w.description \o " with a temperature of " \o ToString(w.temperature) \o "degC. "
    \o "The humidity is at " \o ToString(w.humidity)
    \o "%, making the air feel quite heavy and sticky, typical for this region. "
    \o "Atmospheric pressure is " \o ToString(w.pressure)
    \o " hPa, suggesting stable conditions, though the haze indicates potential air quality concerns, possibly due to pollution or dust. "
    \o "A gentle breeze at " \o ToString(w.wind_speed)
    \o " m/s offers slight relief but isn't strong enough to clear the haze. "
    \o "Light clothing and staying hydrated are recommended, and consider limiting outdoor activities if you're sensitive to air quality."

cloud_narrative(w) ==
    "The weather in " \o w.location \o " on " \o w.date \o " will feature "
    \o w.description \o " with a temperature of " \o ToString(w.temperature) \o "degC. "
    \o "The cloud cover will provide some shade, offering relief from direct sunlight and making it feel more comfortable compared to clearer days. "
    \o "With humidity at " \o ToString(w.humidity)
    \o "%, the air might feel a bit damp, and the pressure at " \o ToString(w.pressure)
    \o " hPa suggests a stable atmosphere. "
    \o "Wind speed is " \o ToString(w.wind_speed)
    \o " m/s, which is mild and won't significantly impact the day. "
    \o "The cloudy conditions might hint at a chance of light rain or drizzle, so carrying an umbrella could be wise."

generic_narrative(w) ==
    "The weather in " \o w.location \o " on " \o w.date \o " will be "
    \o w.description \o " with a temperature of " \o ToString(w.temperature) \o "degC. "
    \o "Humidity is at " \o ToString(w.humidity) \o "%, pressure at "
    \o ToString(w.pressure) \o " hPa, and wind speed at " \o ToString(w.wind_speed)
    \o " m/s. "
    \o "Expect typical conditions for this weather pattern-stay prepared for changes and dress accordingly."

\* variant: the two tests in the other order
narrative_cloud_first(w) ==
    IF Contains("cloud", Lower(w.description)) THEN cloud_narrative(w)
    ELSE IF Contains("haze", Lower(w.description)) THEN haze_narrative(w)
    ELSE generic_narrative(w)

\* the if / elif / else over weather['description'].lower()
narrative(w) ==
    IF Contains("haze", Lower(w.description)) THEN haze_narrative(w)
    ELSE IF Contains("cloud", Lower(w.description)) THEN cloud_narrative(w)
    ELSE generic_narrative(w)

days_wrapper(w, days_ahead) ==
    "the weather after " \o ToString(days_ahead.v) \o " days in "
    \o strftime_dB(strptime_ymd(w.date)) \o " will be like { "
    \o weather_details(w) \o " }\n\n"

\* Return(text), or Raise when weather is None (None has no .get)
format_weather_response(weather, days_ahead) ==
    IF weather.k = "None" THEN Raise("AttributeError")
    ELSE IF weather.k = "error" THEN Return(weather.error)
    ELSE IF days_ahead.k # "None"
         THEN Return(days_wrapper(weather, days_ahead) \o narrative(weather))
         ELSE Return(narrative(weather))

(***************************************************************************)
(* Inputs: clock readings, provider answers, texts                         *)
(***************************************************************************)
MaxSegs == 4        \* segments of a drawn query text
MaxSlots == 3       \* slots of a drawn forecast list

\* the timestamp of y-m-d h:mi:00 UTC
Timestamp(y, m, d, h, mi) ==
    (ToOrdinal(y, m, d) - EpochOrdinal) * SecPerDay + h * 3600 + mi * 60

Slot(dt, temp, description, icon, humidity, pressure, wind_speed) ==
    [dt |-> dt, temp |-> temp, description |-> description, icon |-> icon,
     humidity |-> humidity, pressure |-> pressure, wind_speed |-> wind_speed]

SlotA == Slot(Timestamp(2025, 5, 31, 21, 0), 29, "broken clouds", "04n", 70, 1008, 3)
SlotB == Slot(Timestamp(2025, 6, 1, 0, 0), 27, "haze", "50n", 83, 1007, 2)
SlotC == Slot(Timestamp(2025, 6, 1, 3, 0), 31, "clear sky", "01d", 64, 1009, 4)
SlotD == Slot(Timestamp(2025, 6, 2, 0, 0), 26, "light rain and clouds", "10n", 90, 1005, 5)

SlotPool == {SlotA, SlotB, SlotC, SlotD}

ForecastData(name, list) == [city_name |-> name, list |-> list]

\* the /weather answer: one slot with the city's name
CurrentData(name, slot) ==
    [name |-> name, dt |-> slot.dt, temp |-> slot.temp, description |-> slot.description,
     icon |-> slot.icon, humidity |-> slot.humidity, pressure |-> slot.pressure,
     wind_speed |-> slot.wind_speed]

SlotLists(n) == UNION {[1..len -> SlotPool] : len \in 0..n}

Descriptions ==
    {"haze", "Haze", "broken clouds", "light rain and clouds", "clear sky",
     "haze and clouds", "CLOUDS, then haze", "no clouds expected", "mist"}

RECURSIVE Concat(_)
Concat(ss) == IF Len(ss) = 0 THEN "" ELSE Head(ss) \o Concat(Tail(ss))

Segments ==
    {"2025-06-01", "2024-02-29", "2025-02-30", "2025-13-01", " ", "x", "7", "on "}

QueryTexts == {Concat(ss) : ss \in UNION {[1..n -> Segments] : n \in 0..MaxSegs}}

(***************************************************************************)
(* SpecFn: each function applied once to an input drawn from its domain    *)
(***************************************************************************)
\* no step of a script run to show
Idle == [kind |-> "idle"]

Pending == [k |-> "pending"]
Done(v) == [k |-> "done", v |-> v]

ExtractProbes == {[fn |-> "extract_date_from_query", query |-> q, out |-> Pending] :
                    q \in QueryTexts}

FetchDates ==
    {None, utcfromtimestamp(Timestamp(2025, 5, 31, 23, 55)),
     utcfromtimestamp(Timestamp(2025, 6, 1, 0, 0)),
     utcfromtimestamp(Timestamp(2025, 6, 3, 0, 0))}

\* what the provider may answer to a request on the endpoint the date selects
UpstreamFor(date, name, lists) ==
    {HttpRaise, WeatherResp(404, None)}
    \cup (IF date.k = "None"
          THEN {WeatherResp(200, CurrentData(name, sl)) : sl \in SlotPool}
          ELSE {WeatherResp(200, ForecastData(name, l)) : l \in lists})

FetchProbes ==
    UNION {{[fn |-> "get_weather", location |-> "Paris", date |-> d, response |-> r,
             out |-> Pending] : r \in UpstreamFor(d, "Paris", SlotLists(MaxSlots))} :
           d \in FetchDates}

FormatWeathers ==
    {WeatherDict("Paris", Slot(Timestamp(2025, 6, 1, 0, 0), 27, desc, "50n", 83, 1007, 2),
                 "2025-06-01") : desc \in Descriptions}
    \cup {ErrorDict("Weather data not available for this date."), ErrorDict("API error: 404")}

FormatProbes ==
    {[fn |-> "format_weather_response", weather |-> w, days_ahead |-> da, out |-> Pending] :
        w \in FormatWeathers, da \in {None, IntVal(0), IntVal(1), IntVal(3)}}

NoProbe == [fn |-> "none"]

ApplyExtract ==
    /\ probe.fn = "extract_date_from_query" /\ probe.out = Pending
    /\ probe' = [probe EXCEPT !.out = Done(extract_date_from_query(probe.query))]
    /\ UNCHANGED session

ApplyGetWeather ==
    /\ probe.fn = "get_weather" /\ probe.out = Pending
    /\ probe' = [probe EXCEPT
                   !.out = Done(get_weather(probe.location, probe.date, probe.response))]
    /\ UNCHANGED session

ApplyFormat ==
    /\ probe.fn = "format_weather_response" /\ probe.out = Pending
    /\ probe' = [probe EXCEPT
                   !.out = Done(format_weather_response(probe.weather, probe.days_ahead))]
    /\ UNCHANGED session

SpecFnInit ==
    /\ now = 0 /\ nreq = 0 /\ chat_history = <<>>
    /\ loc_cache = [k |-> "empty"] /\ weather_cache = {}
    /\ pending = None /\ req = Idle
    /\ \/ probe \in ExtractProbes
       \/ probe \in FetchProbes
       \/ probe \in FormatProbes

SpecFnNext == ApplyExtract \/ ApplyGetWeather \/ ApplyFormat

SpecFn == SpecFnInit /\ [][SpecFnNext]_vars

(***************************************************************************)
(* st.cache_data(ttl=600): a result is served from the store while its     *)
(* entry is younger than the ttl; a call that raises stores nothing.       *)
(***************************************************************************)
CacheTTL == 600

Fresh(at, t) == t - at < CacheTTL

EmptyCache == [k |-> "empty"]

\* get_location_by_ip() through its cache at time t
cached_get_location_by_ip(cache, t, echo, geo) ==
    IF cache.k = "entry" /\ Fresh(cache.at, t)
    THEN [val |-> cache.val, calls |-> <<>>, cache |-> cache]
    ELSE LET v == get_location_by_ip(echo, geo)
         IN [val |-> v, calls |-> location_calls(echo, geo),
             cache |-> [k |-> "entry", val |-> v, at |-> t]]

\* get_weather(location, date) through its cache at time t
cached_get_weather(cache, location, date, t, response) ==
    LET hits == {e \in cache : e.location = location /\ e.date = date /\ Fresh(e.at, t)}
    IN IF hits # {}
       THEN [val |-> (CHOOSE e \in hits : TRUE).val, calls |-> <<>>, cache |-> cache,
             served |-> "cache"]
       ELSE LET v == get_weather(location, date, response)
                others == {e \in cache : ~(e.location = location /\ e.date = date)}
            IN [val |-> v,
                calls |-> <<WeatherCall(weather_endpoint(date), location, response)>>,
                served |-> "provider",
                cache |-> IF v.k = "raise" THEN cache
                          ELSE others \cup {[location |-> location, date |-> date,
                                             val |-> v, at |-> t]}]

(***************************************************************************)
(* The two tool functions.  ta, tb, tc are the readings of utcnow(): the   *)
(* default date, the comparison, the subtraction.                          *)
(***************************************************************************)
utcnow(t) == utcfromtimestamp(t)

default_date(date, ta) == IF date.k = "None" THEN utcnow(ta) ELSE date

\* (date.date() - utcnow().date()).days if date > utcnow() else None
days_ahead_of(date, tb, tc) ==
    IF DateTimeGT(date, utcnow(tb)) THEN IntVal(date.day - utcnow(tc).day) ELSE None

\* if location: (None and "" are false)
LocationTruthy(location) == location.k = "str" /\ location.s # ""

\* get_weather(location, date), then format_weather_response(weather, days_ahead)
lookup_and_format(location, date, tb, tc, response, lcache, wcache, loc, loc_calls) ==
    LET days_ahead == days_ahead_of(date, tb, tc)
        w == cached_get_weather(wcache, location, date, tc, response)
    IN [outcome |-> IF w.val.k = "raise" THEN w.val
                    ELSE format_weather_response(w.val, days_ahead),
        calls |-> loc_calls \o w.calls,
        loc |-> loc,
        gw |-> [k |-> "call", location |-> location, date |-> date],
        weather |-> w.val,
        served |-> w.served,
        days_ahead |-> days_ahead,
        lcache |-> lcache,
        wcache |-> w.cache]

get_weather_without_location(query, date, ta, tb, tc, echo, geo, response, lcache, wcache) ==
    LET d == default_date(date, ta)
        l == cached_get_location_by_ip(lcache, ta, echo, geo)
    IN IF LocationTruthy(l.val)
       THEN lookup_and_format(l.val.s, d, tb, tc, response, l.cache, wcache, l.val, l.calls)
       ELSE [outcome |-> Return("Could not determine location by IP."),
             calls |-> l.calls,
             loc |-> l.val,
             gw |-> None,
             weather |-> None,
             served |-> "none",
             days_ahead |-> None,
             lcache |-> l.cache,
             wcache |-> wcache]

get_weather_for_location(location, date, ta, tb, tc, response, lcache, wcache) ==
    lookup_and_format(location, default_date(date, ta), tb, tc, response, lcache, wcache,
                      None, <<>>)

\* the Tool wrappers: the date argument is what the extractor finds in the tool input
get_weather_by_ip(query, ta, tb, tc, echo, geo, response, lcache, wcache) ==
    get_weather_without_location(query, extract_date_from_query(query), ta, tb, tc,
                                 echo, geo, response, lcache, wcache)

get_current_weather(location, ta, tb, tc, response, lcache, wcache) ==
    get_weather_for_location(location, extract_date_from_query(location), ta, tb, tc,
                             response, lcache, wcache)

(***************************************************************************)
(* The session: one script run per submission.  A run with a non-empty     *)
(* text hands it to the agent, which calls tools (its choice of tool and   *)
(* tool input) and then answers, or fails; the turn is appended once the   *)
(* agent has answered.  Spec explores the tool calls by themselves, over   *)
(* every answer of the three services; SpecSession explores the script     *)
(* runs and the chat log, over fewer answers.                              *)
(***************************************************************************)
MaxTicks == 2       \* clock steps explored
MaxRequests == 2    \* tool invocations explored
MaxTurns == 2       \* turns of the chat log explored

StartTime == Timestamp(2025, 5, 31, 23, 55)
ClockStep == 5 * 60
MaxNow == StartTime + MaxTicks * ClockStep

\* a later reading of the clock within one tool call
Reads(t) == {t} \cup (IF t + ClockStep <= MaxNow THEN {t + ClockStep} ELSE {})

UserTexts == {"weather in Paris on 2025-06-01", "what is the weather today"}
IpQueries == {"weather today", "weather on 2025-06-01"}
LocationInputs == {"Paris", "weather in Paris on 2025-06-01"}
LLMText == "It looks hazy in Paris."

EchoOutcomes == {HttpRaise, EchoResp(200, "203.0.113.7"), EchoResp(503, "")}
GeoOutcomes ==
    {HttpRaise, GeoResp(404, None), GeoResp(200, None), GeoResp(200, Str("Dhaka"))}
ForecastLists == {<<>>, <<SlotA, SlotB>>, <<SlotB, SlotC>>}

\* the answers drawn while the chat log is explored
SessionEchoOutcomes == {EchoResp(200, "203.0.113.7")}
SessionGeoOutcomes == {GeoResp(200, Str("Dhaka"))}
SessionLists == {<<SlotA, SlotB>>}
SessionIpQueries == {"weather today"}
SessionLocationInputs == {"weather in Paris on 2025-06-01"}

\* entries past their ttl are never served again
purge_weather(cache, t) == {e \in cache : Fresh(e.at, t)}
purge_location(cache, t) ==
    IF cache.k = "entry" /\ ~Fresh(cache.at, t) THEN EmptyCache ELSE cache

Trace(tool, input, r) ==
    [kind |-> "tool", tool |-> tool, input |-> input, outcome |-> r.outcome,
     calls |-> r.calls, loc |-> r.loc, gw |-> r.gw, weather |-> r.weather,
     served |-> r.served, days_ahead |-> r.days_ahead]

\* variant: the log is rebuilt with the new turn in front
history_prepend(history, user, agent) == <<[user |-> user, agent |-> agent]>> \o history

\* st.session_state.chat_history.append({"user": ..., "agent": ...})
history_append(history, user, agent) == Append(history, [user |-> user, agent |-> agent])

\* the state a tool call leaves: a tool that raises ends the script run
AfterTool(tool, input, r, tc) ==
    /\ req' = Trace(tool, input, r)
    /\ now' = tc
    /\ nreq' = nreq + 1
    /\ loc_cache' = purge_location(r.lcache, tc)
    /\ weather_cache' = purge_weather(r.wcache, tc)
    /\ pending' = IF r.outcome.k = "raise" THEN None ELSE pending
    /\ UNCHANGED <<chat_history, probe>>

Init ==
    /\ now = StartTime
    /\ nreq = 0
    /\ chat_history = <<>>
    /\ loc_cache = EmptyCache
    /\ weather_cache = {}
    /\ pending = None
    /\ req = Idle
    /\ probe = NoProbe

\* A service that is not asked gives no answer: the by-IP tool asks the IP services
\* on a miss of the location cache only (and ipinfo only once ipify has answered), and
\* either tool asks the weather provider on a miss of the weather cache only.
LocationCached(t) == loc_cache.k = "entry" /\ Fresh(loc_cache.at, t)

WeatherCached(location, date, t) ==
    \E e \in weather_cache : e.location = location /\ e.date = date /\ Fresh(e.at, t)

NotAsked == {HttpRaise}

\* a call of the by-IP tool
ByIP(queries, echos, geos, lists) ==
    /\ nreq < MaxRequests
    /\ \E query \in queries, tb \in Reads(now), tc \in Reads(now) :
         /\ tb <= tc
         /\ \E echo \in (IF LocationCached(now) THEN NotAsked ELSE echos) :
            \E geo \in (IF LocationCached(now) \/ echo.k = "raise" THEN NotAsked ELSE geos) :
            LET date == default_date(extract_date_from_query(query), now)
                l == cached_get_location_by_ip(loc_cache, now, echo, geo).val
            IN \E response \in (IF ~LocationTruthy(l) \/ WeatherCached(l.s, date, tc)
                                THEN NotAsked
                                ELSE UpstreamFor(date, l.s, lists)) :
                 AfterTool("get_weather_by_ip", query,
                           get_weather_by_ip(query, now, tb, tc, echo, geo, response,
                                             loc_cache, weather_cache), tc)

\* a call of the by-location tool
ByLocation(locations, lists) ==
    /\ nreq < MaxRequests
    /\ \E location \in locations, tb \in Reads(now), tc \in Reads(now) :
         /\ tb <= tc
         /\ LET date == default_date(extract_date_from_query(location), now)
            IN \E response \in (IF WeatherCached(location, date, tc)
                                THEN NotAsked
                                ELSE UpstreamFor(date, "Paris", lists)) :
                 AfterTool("get_current_weather", location,
                           get_current_weather(location, now, tb, tc, response,
                                               loc_cache, weather_cache), tc)

Tick ==
    /\ now + ClockStep <= MaxNow
    /\ now' = now + ClockStep
    /\ loc_cache' = purge_location(loc_cache, now')
    /\ weather_cache' = purge_weather(weather_cache, now')
    /\ UNCHANGED <<nreq, chat_history, pending, req, probe>>

InvokeByIP == ByIP(IpQueries, EchoOutcomes, GeoOutcomes, ForecastLists)

InvokeByLocation == ByLocation(LocationInputs, ForecastLists)

Next ==
    \/ InvokeByIP
    \/ InvokeByLocation
    \/ Tick

Spec == Init /\ [][Next]_vars

\* user_query is empty: the prompt line is written, nothing else happens
SubmitEmpty ==
    /\ pending = None
    /\ req' = Idle
    /\ UNCHANGED <<now, nreq, chat_history, loc_cache, weather_cache, pending, probe>>

\* user_query is non-empty: agent.invoke(user_query) starts
Submit ==
    /\ pending = None
    /\ Len(chat_history) < MaxTurns
    /\ \E u \in UserTexts :
         /\ pending' = Str(u)
         /\ req' = [kind |-> "submit"]
    /\ UNCHANGED <<now, nreq, chat_history, loc_cache, weather_cache, probe>>

\* the agent calls one of its tools
AgentCallsByIP ==
    /\ pending # None
    /\ ByIP(SessionIpQueries, SessionEchoOutcomes, SessionGeoOutcomes, SessionLists)

AgentCallsByLocation ==
    /\ pending # None
    /\ ByLocation(SessionLocationInputs, SessionLists)

\* agent.invoke returns: the tool's output, or text of the model's own
AgentAnswer ==
    /\ pending # None
    /\ \E text \in {LLMText} \cup (IF req.kind = "tool" THEN {req.outcome.v} ELSE {}) :
         chat_history' = history_append(chat_history, pending.s, text)
    /\ pending' = None
    /\ req' = Idle
    /\ UNCHANGED <<now, nreq, loc_cache, weather_cache, probe>>

\* agent.invoke raises (the model provider fails): the run ends before the append
AgentFail ==
    /\ pending # None
    /\ pending' = None
    /\ req' = Idle
    /\ UNCHANGED <<now, nreq, chat_history, loc_cache, weather_cache, probe>>

SessionNext ==
    \/ SubmitEmpty
    \/ Submit
    \/ AgentCallsByIP
    \/ AgentCallsByLocation
    \/ AgentAnswer
    \/ AgentFail
    \/ Tick

SpecSession == Init /\ [][SessionNext]_vars

(***************************************************************************)
(* Properties of the functions (SpecFn)                                    *)
(***************************************************************************)
ExtractDone == probe.fn = "extract_date_from_query" /\ probe.out # Pending
FetchDone == probe.fn = "get_weather" /\ probe.out # Pending
FormatDone == probe.fn = "format_weather_response" /\ probe.out # Pending

Min(S) == CHOOSE x \in S : \A y \in S : x <= y

\* a valid calendar date stands at position i of q, written YYYY-MM-DD
ValidDateAt(q, i) ==
    /\ DateShapedAt(q, i)
    /\ LET y == ParseInt(SubSeq(q, i, i + 3))
           m == ParseInt(SubSeq(q, i + 5, i + 6))
           d == ParseInt(SubSeq(q, i + 8, i + 9))
       IN y >= 1 /\ m >= 1 /\ m <= 12 /\ d >= 1 /\ d <= DaysInMonth(y, m)

\* the datetime (at midnight) of the date written at position i of q
DateWrittenAt(q, i) ==
    DateTime(ToOrdinal(ParseInt(SubSeq(q, i, i + 3)), ParseInt(SubSeq(q, i + 5, i + 6)),
                       ParseInt(SubSeq(q, i + 8, i + 9))), 0)

\* the ten characters at position i touch no letter, digit or underscore
StandsAlone(q, i) ==
    /\ \/ i = 1
       \/ Char(q, i - 1) \notin (DigitChars \cup LowerChars \cup UpperChars \cup {"_"})
    /\ \/ i + 9 = Len(q)
       \/ Char(q, i + 10) \notin (DigitChars \cup LowerChars \cup UpperChars \cup {"_"})

\* C2 as stated: extract_date_from_query returns D for every text that contains a
\* valid YYYY-MM-DD substring D anywhere, whatever precedes or follows it and
\* whatever date-shaped text comes earlier, and None for a text with no such substring.
C2_Original ==
    ExtractDone =>
        LET q == probe.query
        IN /\ \A i \in 1..Len(q) : ValidDateAt(q, i) => probe.out.v = DateWrittenAt(q, i)
           /\ (\A i \in 1..Len(q) : ~ValidDateAt(q, i)) => probe.out.v = None

\* C2 amended: the result is decided by the leftmost YYYY-MM-DD-shaped substring that
\* stands alone (touches no letter, digit or underscore): its date if that is a valid
\* calendar date, None if it is not or if no such substring exists; in particular
\* None for every text with no valid YYYY-MM-DD substring.
C2_Amended ==
    ExtractDone =>
        LET q == probe.query
            M == {i \in 1..Len(q) : DateShapedAt(q, i) /\ StandsAlone(q, i)}
        IN /\ M = {} => probe.out.v = None
           /\ M # {} /\ ValidDateAt(q, Min(M)) => probe.out.v = DateWrittenAt(q, Min(M))
           /\ M # {} /\ ~ValidDateAt(q, Min(M)) => probe.out.v = None
           /\ (\A i \in 1..Len(q) : ~ValidDateAt(q, i)) => probe.out.v = None

\* a text whose first date is glued to a word character and whose second stands alone:
\* the second one is returned
C2_Witness ==
    /\ ExtractDone
    /\ probe.query = "x2025-06-01 2024-02-29"
    /\ probe.out.v = DateTime(ToOrdinal(2024, 2, 29), 0)

WeatherFields ==
    {"k", "location", "temperature", "description", "icon", "humidity", "pressure",
     "wind_speed", "date"}

\* a weather record with every field present, its texts non-empty and its date a
\* YYYY-MM-DD text
Populated(w) ==
    /\ w.k = "weather"
    /\ DOMAIN w = WeatherFields
    /\ w.location # "" /\ w.description # "" /\ w.icon # ""
    /\ w.temperature \in Int /\ w.humidity \in Int /\ w.pressure \in Int
    /\ w.wind_speed \in Int
    /\ Len(w.date) = 10 /\ ValidDateAt(w.date, 1)

SlotDay(slot) == EpochOrdinal + (slot.dt \div SecPerDay)

\* the timestamp of a datetime
TimestampOf(dt) == (dt.day - EpochOrdinal) * SecPerDay + dt.sec

\* C5 as stated: after a 200 answer both get_weather(loc, None) and
\* get_weather(loc, today) return a fully populated weather record, never an error
\* result, for every forecast list (here even: every non-empty list of slots that
\* are not earlier than the date asked for, as a forecast made at that time is).
C5_Original ==
    (FetchDone /\ probe.response.k = "resp" /\ probe.response.status = 200
       /\ (probe.date # None =>
             /\ Len(probe.response.data.list) > 0
             /\ \A i \in 1..Len(probe.response.data.list) :
                  probe.response.data.list[i].dt >= TimestampOf(probe.date)))
    => Populated(probe.out.v)

\* C5 amended: after a 200 answer get_weather(loc, None) returns a fully populated
\* weather record; get_weather(loc, date) returns one when the forecast list holds a
\* slot of that UTC date, and the error result for the date when it holds none.
C5_Amended ==
    (FetchDone /\ probe.response.k = "resp" /\ probe.response.status = 200)
    => IF probe.date = None
       THEN Populated(probe.out.v)
       ELSE LET l == probe.response.data.list
            IN IF \E i \in 1..Len(l) : SlotDay(l[i]) = probe.date.day
               THEN Populated(probe.out.v)
               ELSE probe.out.v = ErrorDict("Weather data not available for this date.")

\* a dated call whose date is a reading of the clock ("today"), which finds its slot
\* behind a slot of another day
C5_Witness ==
    /\ FetchDone /\ probe.response.k = "resp" /\ probe.response.status = 200
    /\ probe.date # None
    /\ probe.date.sec > 0
    /\ Len(probe.response.data.list) > 1
    /\ SlotDay(probe.response.data.list[1]) # probe.date.day
    /\ Populated(probe.out.v)

\* C6: with a date and a 200 forecast answer, the result is the record built from the
\* first slot, in list order, whose UTC calendar date is the requested date, and it is
\* exactly the not-available error when no slot has that date; no later matching slot
\* and no slot of another date is returned.
C6_FirstMatchingSlot ==
    (FetchDone /\ probe.date # None /\ probe.response.k = "resp"
       /\ probe.response.status = 200)
    => LET l == probe.response.data.list
           M == {i \in 1..Len(l) : SlotDay(l[i]) = probe.date.day}
           w == probe.out.v
       IN IF M = {}
          THEN w = [k |-> "error", error |-> "Weather data not available for this date."]
          ELSE /\ w.k = "weather"
               /\ w.location = probe.response.data.city_name
               /\ w.temperature = l[Min(M)].temp
               /\ w.description = l[Min(M)].description
               /\ w.icon = l[Min(M)].icon
               /\ w.humidity = l[Min(M)].humidity
               /\ w.pressure = l[Min(M)].pressure
               /\ w.wind_speed = l[Min(M)].wind_speed
               /\ ValidDateAt(w.date, 1)
               /\ DateWrittenAt(w.date, 1).day = probe.date.day

\* a list with a slot of another day first and two different slots of the requested
\* day after it
C6_Witness ==
    /\ FetchDone /\ probe.date # None
    /\ probe.response.k = "resp" /\ probe.response.status = 200
    /\ LET l == probe.response.data.list
       IN /\ Len(l) = 3
          /\ SlotDay(l[1]) # probe.date.day
          /\ SlotDay(l[2]) = probe.date.day /\ SlotDay(l[3]) = probe.date.day
          /\ l[2] # l[3]
    /\ probe.out.v.k = "weather"

\* the sentence only one template has
HazeMark == "making the air feel quite heavy and sticky"
CloudMark == "The cloud cover will provide some shade"
GenericMark == "Expect typical conditions for this weather pattern"

HasSub(sub, str) == \E i \in 1..(Len(str) - Len(sub) + 1) : SubSeq(str, i, i + Len(sub) - 1) = sub

\* C9: on a weather record the formatter uses exactly one of the three narrative
\* templates, chosen by a case-insensitive substring match on the description: the
\* haze template if it contains "haze" (also when it contains "cloud" too), otherwise
\* the cloud template if it contains "cloud" ("light rain and clouds" selects it),
\* otherwise the generic template.
C9_TemplateChoice ==
    (FormatDone /\ probe.weather.k = "weather")
    => LET text == probe.out.v.v
           desc == Lower(probe.weather.description)
           haze == HasSub(HazeMark, text)
           cloud == HasSub(CloudMark, text)
           generic == HasSub(GenericMark, text)
       IN /\ probe.out.v.k = "return"
          /\ haze <=> HasSub("haze", desc)
          /\ cloud <=> (~HasSub("haze", desc) /\ HasSub("cloud", desc))
          /\ generic <=> (~HasSub("haze", desc) /\ ~HasSub("cloud", desc))
          /\ probe.weather.description = "light rain and clouds" => cloud

\* a description with both words, in capitals, formatted with the haze template
C9_Witness ==
    /\ FormatDone
    /\ probe.weather.k = "weather"
    /\ probe.weather.description = "CLOUDS, then haze"
    /\ HasSub(HazeMark, probe.out.v.v)

(***************************************************************************)
(* Properties of the tool calls (Spec)                                     *)
(***************************************************************************)
ToolDone == req.kind = "tool"
ByIPDone == ToolDone /\ req.tool = "get_weather_by_ip"
ByLocationDone == ToolDone /\ req.tool = "get_current_weather"

\* the positions of the requests to a service in the log of the last tool call
CallsTo(svc) == {i \in 1..Len(req.calls) : req.calls[i].svc = svc}

Succeeded(call) == call.res.k = "resp" /\ call.res.status = 200

\* C1: whatever the external calls do (a network failure, a non-200 status, no slot
\* for the date, an unresolved IP location), a tool function returns a text and lets
\* no exception out.
C1_AlwaysText == ToolDone => req.outcome.k = "return"

\* C3: get_location_by_ip returns the city only when both the IP-echo call and the
\* geolocation call answered with a success status; when either raises or answers
\* with another status it returns None; the geolocation call starts only after the
\* IP-echo call has completed.
C3_CityOnlyIfBothSucceed ==
    (ByIPDone /\ CallsTo("ipify") # {})
    => LET both == /\ \E i \in CallsTo("ipify") : Succeeded(req.calls[i])
                   /\ \E j \in CallsTo("ipinfo") : Succeeded(req.calls[j])
       IN /\ req.loc # None => both
          /\ ~both => req.loc = None
          /\ \A j \in CallsTo("ipinfo") : \E i \in CallsTo("ipify") : i < j

AnchorDay == ToOrdinal(2025, 5, 23)

\* C7: through the by-location tool, for an input that names a city and holds an
\* explicit date D ("weather in Paris on 2025-06-01"), the extractor yields D, the
\* forecast endpoint is asked for that city (Paris), and the text returned for the
\* weather found starts with "the weather after N days", N = (D - anchor date).days.
C7_EndToEnd ==
    (ByLocationDone /\ req.input = "weather in Paris on 2025-06-01")
    => /\ req.gw.date = DateTime(ToOrdinal(2025, 6, 1), 0)
       /\ \A i \in CallsTo("openweathermap") :
            req.calls[i].endpoint = "forecast" /\ req.calls[i].q = "Paris"
       /\ req.weather.k = "weather" =>
            /\ req.outcome.k = "return"
            /\ LET prefix == "the weather after "
                               \o ToString(ToOrdinal(2025, 6, 1) - AnchorDay) \o " days"
               IN SubSeq(req.outcome.v, 1, Len(prefix)) = prefix

\* C10 as stated: every tool call reaches get_weather with a date that is not None,
\* so every tool call queries the forecast endpoint and none queries the
\* current-conditions endpoint.
C10_Original ==
    ToolDone
    => /\ req.gw # None /\ req.gw.date # None
       /\ \E i \in CallsTo("openweathermap") : req.calls[i].endpoint = "forecast"
       /\ \A i \in CallsTo("openweathermap") : req.calls[i].endpoint # "weather"

\* C10 amended: every call of get_weather made through a tool carries a datetime (the
\* clock's reading when the tool input names no date), so every request a tool sends
\* to the weather provider goes to the forecast endpoint and none to the
\* current-conditions endpoint; a tool call sends exactly one such request, except
\* that it sends none when the IP location is unresolved (get_weather is not called)
\* or when the result is served from the cache.
C10_Amended ==
    ToolDone
    => /\ req.gw # None => req.gw.date.k = "datetime"
       /\ \A i \in CallsTo("openweathermap") : req.calls[i].endpoint = "forecast"
       /\ Cardinality(CallsTo("openweathermap")) <= 1
       /\ CallsTo("openweathermap") = {} <=> (req.gw = None \/ req.served = "cache")
       /\ req.gw = None <=> (req.tool = "get_weather_by_ip" /\ ~LocationTruthy(req.loc))
       /\ extract_date_from_query(req.input) = None /\ req.gw # None =>
            /\ req.gw.date.day >= utcnow(StartTime).day
            /\ DateTimeGT(utcnow(now + 1), req.gw.date)

\* a tool input that names no date, looked up on the forecast endpoint
C10_Witness ==
    /\ ByLocationDone
    /\ req.input = "Paris"
    /\ CallsTo("openweathermap") # {}
    /\ req.calls[1].endpoint = "forecast"
    /\ req.gw.date = utcnow(StartTime)

(***************************************************************************)
(* Properties of the chat log (SpecSession)                                *)
(***************************************************************************)
\* the log changes by one turn added at its end, by a run with a non-empty text whose
\* agent call has returned, and by nothing else
AppendOnlyStep ==
    /\ Len(chat_history') >= Len(chat_history)
    /\ SubSeq(chat_history', 1, Len(chat_history)) = chat_history
    /\ chat_history' # chat_history =>
         /\ Len(chat_history') = Len(chat_history) + 1
         /\ pending # None /\ pending.s # "" /\ pending' = None
         /\ chat_history'[Len(chat_history')].user = pending.s
         /\ DOMAIN chat_history'[Len(chat_history')] = {"user", "agent"}
    /\ AgentAnswer => Len(chat_history') = Len(chat_history) + 1
    /\ (SubmitEmpty \/ AgentFail \/ Tick) => chat_history' = chat_history
    /\ (pending # None /\ pending' = None /\ req'.kind = "tool") =>
         chat_history' = chat_history

\* C8 as stated: the log is append-only (one turn per submission with a non-empty
\* text, after the agent has answered; none for an empty submission; no turn removed,
\* moved or rewritten), and it is the only mutable state that carries over from one
\* request to the next: between two script runs the caches hold nothing.
C8_Original ==
    [][/\ AppendOnlyStep
       /\ pending' = None => (loc_cache' = EmptyCache /\ weather_cache' = {})]_vars

\* C8 amended: the log is append-only: a submission with a non-empty text appends
\* exactly one {user, agent} turn at the end once the agent has answered and none if
\* the agent call raises, an empty submission appends nothing, and no step removes,
\* moves or rewrites a turn.  (Besides the log, the two st.cache_data stores carry
\* over from one request to the next: C8_Witness.)
C8_Amended == [][AppendOnlyStep]_vars

\* between two script runs: a log of two different turns, and both caches filled
C8_Witness ==
    /\ pending = None
    /\ Len(chat_history) = 2
    /\ chat_history[1] # chat_history[2]
    /\ loc_cache # EmptyCache
    /\ weather_cache # {}

====
